---------------------------- MODULE Spec2Model ----------------------------
(***************************************************************************)
(* Model of the Whatsminer API v3.0.1 client core (whatsminer_cli/core.py):*)
(* token derivation, parameter encryption, request building and the        *)
(* length-prefixed TCP exchange.                                           *)
(*                                                                         *)
(* Conventions.  A Python str is a sequence of Unicode code points, a      *)
(* Python bytes object a sequence of numbers in 0..255.  A Python value    *)
(* (None, bool, int, str, list, dict) is a tagged record, see PyNone,      *)
(* JInt, JStr, ...; a dict is its sequence of <<key, value>> pairs in      *)
(* insertion order.                                                        *)
(***************************************************************************)
EXTENDS Integers, Sequences, FiniteSets, TLC

(***************************************************************************)
(* String literals of the source, as code points.                          *)
(***************************************************************************)
S_cmd == <<99,109,100>>  \* 'cmd'
S_ts == <<116,115>>  \* 'ts'
S_token == <<116,111,107,101,110>>  \* 'token'
S_account == <<97,99,99,111,117,110,116>>  \* 'account'
S_param == <<112,97,114,97,109>>  \* 'param'
S_raw == <<114,97,119>>  \* 'raw'
S_set_dot == <<115,101,116,46>>  \* 'set.'
CMD_get_device_info == <<103,101,116,46,100,101,118,105,99,101,46,105,110,102,111>>  \* 'get.device.info'
CMD_settings == <<115,101,116,116,105,110,103,115>>  \* 'settings'
CMD_set_miner_power == <<115,101,116,46,109,105,110,101,114,46,112,111,119,101,114>>  \* 'set.miner.power'
CMD_set_miner_pools == <<115,101,116,46,109,105,110,101,114,46,112,111,111,108,115>>  \* 'set.miner.pools'
CMD_set_user_change_passwd == <<115,101,116,46,117,115,101,114,46,99,104,97,110,103,101,95,112,97,115,115,119,100>>  \* 'set.user.change_passwd'
S_super == <<115,117,112,101,114>>  \* 'super'
S_passw0rd == <<112,97,115,115,119,48,114,100>>  \* 'passw0rd'
S_salt123 == <<115,97,108,116,49,50,51>>  \* 'salt123'
S_salt == <<115,97,108,116>>  \* 'salt'
S_pools == <<112,111,111,108,115>>  \* 'pools'
S_url == <<117,114,108>>  \* 'url'
S_user == <<117,115,101,114>>  \* 'user'
S_pass == <<112,97,115,115>>  \* 'pass'
S_pool == <<112,111,111,108>>  \* 'pool'
S_u == <<117>>  \* 'u'
S_x == <<120>>  \* 'x'
S_true == <<116,114,117,101>>  \* 'true'
S_false == <<102,97,108,115,101>>  \* 'false'
S_null == <<110,117,108,108>>  \* 'null'
S_vector == <<115,101,116,46,109,105,110,101,114,46,112,111,119,101,114,112,97,115,115,119,48,114,100,115,97,108,116,49,50,51,49,55,48,48,48,48,48,48,48,48>>  \* 'set.miner.powerpassw0rdsalt1231700000000'
S_encryption_key == <<101,110,99,114,121,112,116,105,111,110,45,107,101,121>>  \* 'encryption-key'
S_foo == <<102,111,111>>  \* 'foo'
S_bar == <<98,97,114>>  \* 'bar'
S_num == <<110,117,109>>  \* 'num'

(***************************************************************************)
(* Python values.                                                          *)
(***************************************************************************)
PyNone == [t |-> "None"]
JBool(b) == [t |-> "bool", v |-> b]
JInt(n) == [t |-> "int", v |-> n]
JStr(s) == [t |-> "str", v |-> s]
JArr(xs) == [t |-> "arr", v |-> xs]
JObj(kvs) == [t |-> "obj", v |-> kvs]

\* Sequence helpers.  Flatten concatenates the sequences of a sequence (by
\* halves: the recursion stays shallow).
RECURSIVE Flatten(_)
Flatten(ss) ==
    IF Len(ss) = 0 THEN <<>>
    ELSE IF Len(ss) = 1 THEN ss[1]
    ELSE LET m == Len(ss) \div 2
         IN  Flatten(SubSeq(ss, 1, m)) \o Flatten(SubSeq(ss, m + 1, Len(ss)))

Repeat(b, n) == [i \in 1..n |-> b]

IsPrefix(p, s) == Len(p) <= Len(s) /\ SubSeq(s, 1, Len(p)) = p

\* str.startswith
startswith(s, p) == IsPrefix(p, s)

(***************************************************************************)
(* f"{ts}" / str(int): the decimal representation, '-' for negatives, no   *)
(* leading zeros.                                                          *)
(***************************************************************************)
RECURSIVE NatDigits(_)
NatDigits(n) == IF n < 10 THEN <<48 + n>> ELSE NatDigits(n \div 10) \o <<48 + (n % 10)>>

IntStr(n) == IF n < 0 THEN <<45>> \o NatDigits(0 - n) ELSE NatDigits(n)

(***************************************************************************)
(* str.encode("utf-8") for code points outside the surrogate range.        *)
(***************************************************************************)
Utf8Char(c) ==
    IF c < 128 THEN <<c>>
    ELSE IF c < 2048 THEN <<192 + (c \div 64), 128 + (c % 64)>>
    ELSE IF c < 65536 THEN <<224 + (c \div 4096), 128 + ((c \div 64) % 64), 128 + (c % 64)>>
    ELSE <<240 + (c \div 262144), 128 + ((c \div 4096) % 64),
           128 + ((c \div 64) % 64), 128 + (c % 64)>>

Utf8Encode(s) == Flatten([i \in 1..Len(s) |-> Utf8Char(s[i])])

(***************************************************************************)
(* hashlib.sha256(...).digest() is outside the repository.  It is modelled *)
(* by what the program relies on: a deterministic map from a byte string   *)
(* to 32 bytes that depends on every byte and on the order of the bytes.   *)
(* The stand-in folds the input into two polynomial sums and spreads them   *)
(* over 32 output bytes.                                                   *)
(***************************************************************************)
\* <<v, w>> with v = sum of (bs[i] + 1) * m^(n - i) and w = m^n, modulo q
RECURSIVE Poly(_, _, _)
Poly(bs, m, q) ==
    IF Len(bs) = 0 THEN <<0, 1>>
    ELSE IF Len(bs) = 1 THEN <<(bs[1] + 1) % q, m % q>>
    ELSE LET h == Len(bs) \div 2
             l == Poly(SubSeq(bs, 1, h), m, q)
             r == Poly(SubSeq(bs, h + 1, Len(bs)), m, q)
         IN  <<(l[1] * r[2] + r[1]) % q, (l[2] * r[2]) % q>>

Sha256(bs) ==
    LET p1 == Poly(bs, 31, 32749)
        p2 == Poly(bs, 131, 32719)
        r1 == (7 * p1[2] + p1[1]) % 32749
        r2 == (11 * p2[2] + p2[1]) % 32719
    IN  [j \in 1..32 |-> (((r1 * (2 * j + 1)) \div 16) + ((r2 * (2 * j + 3)) \div 8) + j) % 256]

\* sha256_digest_bytes(s): sha256 digest bytes of s encoded as UTF-8.
sha256_digest_bytes(s) == Sha256(Utf8Encode(s))

(***************************************************************************)
(* base64.b64encode(...).decode("ascii"): the standard alphabet, '='       *)
(* padding.                                                                *)
(***************************************************************************)
B64Char(i) ==
    IF i < 26 THEN 65 + i
    ELSE IF i < 52 THEN 97 + (i - 26)
    ELSE IF i < 62 THEN 48 + (i - 52)
    ELSE IF i = 62 THEN 43 ELSE 47

\* the k-th character of the encoding of bs
B64At(bs, k) ==
    LET g == (k - 1) \div 4
        b1 == bs[3 * g + 1]
        b2 == IF 3 * g + 2 <= Len(bs) THEN bs[3 * g + 2] ELSE 0
        b3 == IF 3 * g + 3 <= Len(bs) THEN bs[3 * g + 3] ELSE 0
        pos == (k - 1) % 4
    IN  IF pos = 0 THEN B64Char(b1 \div 4)
        ELSE IF pos = 1 THEN B64Char((b1 % 4) * 16 + (b2 \div 16))
        ELSE IF pos = 2 THEN
            IF 3 * g + 2 > Len(bs) THEN 61 ELSE B64Char((b2 % 16) * 4 + (b3 \div 64))
        ELSE IF 3 * g + 3 > Len(bs) THEN 61 ELSE B64Char(b3 % 64)

b64encode(bs) == [k \in 1..(4 * ((Len(bs) + 2) \div 3)) |-> B64At(bs, k)]

(***************************************************************************)
(* f"{x}": a str as it is, an int in decimal, None as the text None.       *)
(***************************************************************************)
FStr(x) ==
    IF x.t = "str" THEN x.v
    ELSE IF x.t = "int" THEN IntStr(x.v)
    ELSE <<78, 111, 110, 101>>

(***************************************************************************)
(* generate_token(cmd, account_password, salt, ts):                        *)
(*   concat = f"{cmd}{account_password}{salt}{ts}"; digest = sha256;       *)
(*   token = first 8 characters of base64(digest).                         *)
(* cmd and account_password are strings, salt and ts Python values.        *)
(* b64[:8] is a slice: it yields what is there when b64 is shorter.        *)
(***************************************************************************)
generate_token_swapped(cmd, account_password, salt, ts) ==
    LET concat == cmd \o FStr(salt) \o account_password \o FStr(ts)
        digest == sha256_digest_bytes(concat)
        b64 == b64encode(digest)
    IN  [token |-> SubSeq(b64, 1, IF Len(b64) < 8 THEN Len(b64) ELSE 8), digest |-> digest]

generate_token(cmd, account_password, salt, ts) ==
    LET concat == cmd \o account_password \o FStr(salt) \o FStr(ts)
        digest == sha256_digest_bytes(concat)
        b64 == b64encode(digest)
    IN  [token |-> SubSeq(b64, 1, IF Len(b64) < 8 THEN Len(b64) ELSE 8), digest |-> digest]

(***************************************************************************)
(* pkcs7_pad(data, block_size):                                            *)
(*   pad_len = block_size - (len(data) % block_size)                       *)
(*   return data + bytes([pad_len]) * pad_len                              *)
(***************************************************************************)
pkcs7_pad_no_full_block(data, block_size) ==
    LET pad_len == (block_size - (Len(data) % block_size)) % block_size
    IN  data \o Repeat(pad_len, pad_len)

pkcs7_pad(data, block_size) ==
    LET pad_len == block_size - (Len(data) % block_size)
    IN  data \o Repeat(pad_len, pad_len)

(***************************************************************************)
(* json.dumps(obj, separators=(",", ":"), ensure_ascii=False).             *)
(* Strings are escaped as json.encoder.py_encode_basestring does: the      *)
(* quote, the backslash and the control characters; every other character  *)
(* is kept as it is.                                                       *)
(***************************************************************************)
HexDigit(d) == IF d < 10 THEN 48 + d ELSE 97 + (d - 10)

JsonEscapeChar(c) ==
    IF c = 34 THEN <<92, 34>>
    ELSE IF c = 92 THEN <<92, 92>>
    ELSE IF c = 8 THEN <<92, 98>>
    ELSE IF c = 12 THEN <<92, 102>>
    ELSE IF c = 10 THEN <<92, 110>>
    ELSE IF c = 13 THEN <<92, 114>>
    ELSE IF c = 9 THEN <<92, 116>>
    ELSE IF c < 32 THEN <<92, 117, 48, 48, HexDigit(c \div 16), HexDigit(c % 16)>>
    ELSE <<c>>

JsonQuote(s) == <<34>> \o Flatten([i \in 1..Len(s) |-> JsonEscapeChar(s[i])]) \o <<34>>

RECURSIVE JoinComma(_)
JoinComma(ss) ==
    IF ss = <<>> THEN <<>>
    ELSE IF Len(ss) = 1 THEN ss[1]
    ELSE ss[1] \o <<44>> \o JoinComma(Tail(ss))

RECURSIVE json_dumps(_)
json_dumps(obj) ==
    CASE obj.t = "None" -> S_null
      [] obj.t = "bool" -> (IF obj.v THEN S_true ELSE S_false)
      [] obj.t = "int" -> IntStr(obj.v)
      [] obj.t = "float" -> obj.v
      [] obj.t = "str" -> JsonQuote(obj.v)
      [] obj.t = "arr" ->
            <<91>> \o JoinComma([i \in 1..Len(obj.v) |-> json_dumps(obj.v[i])]) \o <<93>>
      [] obj.t = "obj" ->
            <<123>>
            \o JoinComma([i \in 1..Len(obj.v) |->
                   JsonQuote(obj.v[i][1]) \o <<58>> \o json_dumps(obj.v[i][2])])
            \o <<125>>

(***************************************************************************)
(* AES.new(key, AES.MODE_ECB).encrypt(data) is outside the repository.  It *)
(* is modelled by what ECB is: the data must be a whole number of 16-byte  *)
(* blocks (the library raises ValueError otherwise), and each block is     *)
(* mapped on its own by a permutation of the 16-byte blocks that the key   *)
(* selects.  The stand-in permutation moves every byte to another place of *)
(* its block and adds key material to it; AesBlockDecrypt is its inverse.  *)
(***************************************************************************)
KeyByte(key, i) == key[((i - 1) % Len(key)) + 1] + 7 * key[((i + 15) % Len(key)) + 1]

AesSrc(i) == ((i + 4) % 16) + 1

AesBlockEncrypt(key, blk) ==
    [i \in 1..16 |-> (blk[AesSrc(i)] + KeyByte(key, i) + i) % 256]

AesBlockDecrypt(key, blk) ==
    [j \in 1..16 |->
        LET i == CHOOSE k \in 1..16 : AesSrc(k) = j
        IN  (blk[i] + 256 * 8 - KeyByte(key, i) - i) % 256]

AesKeyOk(key) == Len(key) \in {16, 24, 32}

\* The result of a cipher call: the bytes, or the exception it raises.
Raised(kind) == [t |-> "exc", v |-> kind]
IsRaised(x) == x.t = "exc"
JBytes(bs) == [t |-> "bytes", v |-> bs]

AesEcbEncrypt(key, data) ==
    IF ~AesKeyOk(key) \/ Len(data) % 16 # 0 THEN Raised("ValueError")
    ELSE JBytes(Flatten([b \in 1..(Len(data) \div 16) |->
                 AesBlockEncrypt(key, SubSeq(data, 16 * (b - 1) + 1, 16 * b))]))

AesEcbDecrypt(key, data) ==
    IF ~AesKeyOk(key) \/ Len(data) % 16 # 0 THEN Raised("ValueError")
    ELSE JBytes(Flatten([b \in 1..(Len(data) \div 16) |->
                 AesBlockDecrypt(key, SubSeq(data, 16 * (b - 1) + 1, 16 * b))]))

(***************************************************************************)
(* encrypt_param_aes_ecb_base64(param_obj, aes_key_bytes): compact JSON,   *)
(* UTF-8, PKCS#7 pad to 16, AES-ECB, base64.  The key is a bytes value or  *)
(* None.                                                                   *)
(***************************************************************************)
encrypt_param_aes_ecb_base64(param_obj, aes_key_bytes) ==
    IF aes_key_bytes = PyNone THEN Raised("ValueError")
    ELSE
        LET json_str == json_dumps(param_obj)
            data == Utf8Encode(json_str)
            padded == pkcs7_pad(data, 16)
            ct == AesEcbEncrypt(aes_key_bytes.v, padded)
        IN  IF IsRaised(ct) THEN ct ELSE JStr(b64encode(ct.v))

(***************************************************************************)
(* The inverse conversions, as the tests of the repository apply them      *)
(* (tests/test_core.py): base64.b64decode, cipher.decrypt, _unpad_pkcs7,   *)
(* bytes.decode and json.loads.                                            *)
(***************************************************************************)
B64Val(c) ==
    IF c >= 65 /\ c <= 90 THEN c - 65
    ELSE IF c >= 97 /\ c <= 122 THEN c - 97 + 26
    ELSE IF c >= 48 /\ c <= 57 THEN c - 48 + 52
    ELSE IF c = 43 THEN 62
    ELSE IF c = 47 THEN 63
    ELSE -1

IsB64Char(c) == B64Val(c) >= 0

\* the bytes of the g-th group of four characters
B64Group(s, g) ==
    LET a == B64Val(s[4 * g - 3])
        b == B64Val(s[4 * g - 2])
        c == B64Val(s[4 * g - 1])
        d == B64Val(s[4 * g])
        b1 == a * 4 + (b \div 16)
        b2 == (b % 16) * 16 + (c \div 4)
        b3 == (c % 4) * 64 + d
    IN  IF s[4 * g - 1] = 61 THEN <<b1>>
        ELSE IF s[4 * g] = 61 THEN <<b1, b2>>
        ELSE <<b1, b2, b3>>

B64Groups(s) == Flatten([g \in 1..(Len(s) \div 4) |-> B64Group(s, g)])

\* b64decode of a padded text over the standard alphabet.
B64WellFormed(s) ==
    /\ Len(s) % 4 = 0
    /\ \A i \in 1..Len(s) :
          \/ IsB64Char(s[i])
          \/ s[i] = 61 /\ i >= Len(s) - 1 /\ (i = Len(s) \/ s[Len(s)] = 61)

b64decode(s) == IF B64WellFormed(s) THEN JBytes(B64Groups(s)) ELSE Raised("binascii.Error")

\* _unpad_pkcs7(data): pad_len = data[-1]; return data[:-pad_len]
unpad_pkcs7(data) ==
    IF data = <<>> THEN Raised("IndexError")
    ELSE
        LET pad_len == data[Len(data)]
        IN  IF pad_len = 0 \/ pad_len >= Len(data) THEN JBytes(<<>>)
            ELSE JBytes(SubSeq(data, 1, Len(data) - pad_len))

(***************************************************************************)
(* bytes.decode("utf-8", errors="ignore"): every well-formed sequence      *)
(* (shortest form, no surrogates, at most U+10FFFF) yields its code point, *)
(* every other byte is dropped.                                            *)
(***************************************************************************)
IsCont(bs, k) == k <= Len(bs) /\ bs[k] >= 128 /\ bs[k] <= 191

\* What the byte at place i yields.  A continuation byte yields nothing by
\* itself, and no well-formed sequence starts inside another, so each place
\* is decided on its own.
Utf8At(bs, i) ==
    LET b == bs[i]
    IN  IF b < 128 THEN <<b>>
        ELSE IF b >= 194 /\ b <= 223 /\ IsCont(bs, i + 1) THEN
            <<(b - 192) * 64 + (bs[i + 1] - 128)>>
        ELSE IF /\ b >= 224 /\ b <= 239 /\ IsCont(bs, i + 1) /\ IsCont(bs, i + 2)
                /\ (b = 224 => bs[i + 1] >= 160)
                /\ (b = 237 => bs[i + 1] <= 159) THEN
            <<(b - 224) * 4096 + (bs[i + 1] - 128) * 64 + (bs[i + 2] - 128)>>
        ELSE IF /\ b >= 240 /\ b <= 244
                /\ IsCont(bs, i + 1) /\ IsCont(bs, i + 2) /\ IsCont(bs, i + 3)
                /\ (b = 240 => bs[i + 1] >= 144)
                /\ (b = 244 => bs[i + 1] <= 143) THEN
            <<(b - 240) * 262144 + (bs[i + 1] - 128) * 4096
              + (bs[i + 2] - 128) * 64 + (bs[i + 3] - 128)>>
        ELSE <<>>

Utf8DecodeIgnore(bs) == Flatten([i \in 1..Len(bs) |-> Utf8At(bs, i)])

\* bytes.decode("utf-8"): strict, raises when a byte would have been dropped.
Utf8DecodeStrict(bs) ==
    LET s == Utf8DecodeIgnore(bs)
    IN  IF Utf8Encode(s) = bs THEN JStr(s) ELSE Raised("UnicodeDecodeError")

(***************************************************************************)
(* json.loads(text), after json/decoder.py and json/scanner.py: one value  *)
(* between optional whitespace, nothing after it.  Objects keep the first  *)
(* position and the last value of a repeated key, as dict(pairs) does.  A  *)
(* float literal is kept as its text; integers are within 32 bits.         *)
(***************************************************************************)
ParseFail == [ok |-> FALSE, v |-> PyNone, i |-> 0]
ParseOk(v, i) == [ok |-> TRUE, v |-> v, i |-> i]

\* s[i], or -1 past the end
At(s, i) == IF i >= 1 /\ i <= Len(s) THEN s[i] ELSE -1

\* s[i:i+n]
Slice(s, i, n) == SubSeq(s, i, IF i + n - 1 > Len(s) THEN Len(s) ELSE i + n - 1)

IsWs(c) == c \in {32, 9, 10, 13}
IsDigit(c) == c >= 48 /\ c <= 57
IsHex(c) == IsDigit(c) \/ (c >= 97 /\ c <= 102) \/ (c >= 65 /\ c <= 70)
HexVal(c) == IF IsDigit(c) THEN c - 48 ELSE IF c >= 97 THEN c - 87 ELSE c - 55

RECURSIVE SkipWs(_, _)
SkipWs(s, i) == IF IsWs(At(s, i)) THEN SkipWs(s, i + 1) ELSE i

RECURSIVE SkipDigits(_, _)
SkipDigits(s, i) == IF IsDigit(At(s, i)) THEN SkipDigits(s, i + 1) ELSE i

RECURSIVE DigitsVal(_, _)
DigitsVal(ds, acc) == IF ds = <<>> THEN acc ELSE DigitsVal(Tail(ds), acc * 10 + (Head(ds) - 48))

\* BACKSLASH of json/decoder.py
Unescape(e) ==
    CASE e = 34 -> 34 [] e = 92 -> 92 [] e = 47 -> 47 [] e = 98 -> 8
      [] e = 102 -> 12 [] e = 110 -> 10 [] e = 114 -> 13 [] e = 116 -> 9
      [] OTHER -> -1

\* scanstring(s, i): i is the place after the opening quote
RECURSIVE ScanString(_, _, _)
ScanString(s, i, acc) ==
    IF i > Len(s) THEN ParseFail
    ELSE
        LET c == s[i]
        IN  IF c = 34 THEN ParseOk(JStr(acc), i + 1)
            ELSE IF c = 92 THEN
                LET e == At(s, i + 1)
                IN  IF e = 117 THEN
                        IF \A k \in 2..5 : IsHex(At(s, i + k))
                        THEN ScanString(s, i + 6,
                                 Append(acc, HexVal(s[i + 2]) * 4096 + HexVal(s[i + 3]) * 256
                                             + HexVal(s[i + 4]) * 16 + HexVal(s[i + 5])))
                        ELSE ParseFail
                    ELSE IF Unescape(e) >= 0 THEN ScanString(s, i + 2, Append(acc, Unescape(e)))
                    ELSE ParseFail
            ELSE IF c < 32 THEN ParseFail
            ELSE ScanString(s, i + 1, Append(acc, c))

\* NUMBER_RE.match(s, i): (-?(?:0|[1-9][0-9]*))(\.[0-9]+)?([eE][-+]?[0-9]+)?
MatchNumber(s, i) ==
    LET j0 == IF At(s, i) = 45 THEN i + 1 ELSE i
        d == At(s, j0)
        intEnd == IF d = 48 THEN j0 + 1 ELSE SkipDigits(s, j0)
        fracEnd == IF At(s, intEnd) = 46 /\ IsDigit(At(s, intEnd + 1))
                   THEN SkipDigits(s, intEnd + 1) ELSE intEnd
        e0 == fracEnd + 1
        e1 == IF At(s, e0) \in {43, 45} THEN e0 + 1 ELSE e0
        expEnd == IF At(s, fracEnd) \in {101, 69} /\ IsDigit(At(s, e1))
                  THEN SkipDigits(s, e1) ELSE fracEnd
        mag == DigitsVal(SubSeq(s, j0, intEnd - 1), 0)
    IN  IF ~IsDigit(d) THEN ParseFail
        ELSE IF expEnd = intEnd THEN ParseOk(JInt(IF j0 = i THEN mag ELSE 0 - mag), intEnd)
        ELSE ParseOk([t |-> "float", v |-> SubSeq(s, i, expEnd - 1)], expEnd)

\* dict(pairs): a repeated key keeps its place and takes the last value
DictSet(kvs, k, v) ==
    IF \E n \in 1..Len(kvs) : kvs[n][1] = k
    THEN [n \in 1..Len(kvs) |-> IF kvs[n][1] = k THEN <<k, v>> ELSE kvs[n]]
    ELSE Append(kvs, <<k, v>>)

RECURSIVE ParseValue(_, _)
RECURSIVE ParseArrayItems(_, _, _)
RECURSIVE ParseObjectItems(_, _, _)

\* JSONArray: i is the place after '['
ParseArray(s, i) ==
    LET j == SkipWs(s, i)
    IN  IF At(s, j) = 93 THEN ParseOk(JArr(<<>>), j + 1) ELSE ParseArrayItems(s, j, <<>>)

ParseArrayItems(s, i, acc) ==
    LET r == ParseValue(s, i)
        j == SkipWs(s, r.i)
        c == At(s, j)
    IN  IF ~r.ok THEN ParseFail
        ELSE IF c = 93 THEN ParseOk(JArr(Append(acc, r.v)), j + 1)
        ELSE IF c = 44 THEN ParseArrayItems(s, SkipWs(s, j + 1), Append(acc, r.v))
        ELSE ParseFail

\* JSONObject: i is the place after '{'
ParseObject(s, i) ==
    LET j == SkipWs(s, i)
    IN  IF At(s, j) = 125 THEN ParseOk(JObj(<<>>), j + 1)
        ELSE IF At(s, j) # 34 THEN ParseFail
        ELSE ParseObjectItems(s, j, <<>>)

\* i is the place of the opening quote of the next key
ParseObjectItems(s, i, acc) ==
    LET k == ScanString(s, i + 1, <<>>)
        j == SkipWs(s, k.i)
        r == ParseValue(s, SkipWs(s, j + 1))
        m == SkipWs(s, r.i)
        c == At(s, m)
        n == SkipWs(s, m + 1)
    IN  IF ~k.ok THEN ParseFail
        ELSE IF At(s, j) # 58 THEN ParseFail
        ELSE IF ~r.ok THEN ParseFail
        ELSE IF c = 125 THEN ParseOk(JObj(DictSet(acc, k.v.v, r.v)), m + 1)
        ELSE IF c = 44 /\ At(s, n) = 34 THEN ParseObjectItems(s, n, DictSet(acc, k.v.v, r.v))
        ELSE ParseFail

\* scan_once(s, i)
ParseValue(s, i) ==
    LET c == At(s, i)
        num == MatchNumber(s, i)
    IN  IF c = -1 THEN ParseFail
        ELSE IF c = 34 THEN ScanString(s, i + 1, <<>>)
        ELSE IF c = 123 THEN ParseObject(s, i + 1)
        ELSE IF c = 91 THEN ParseArray(s, i + 1)
        ELSE IF c = 110 /\ Slice(s, i, 4) = S_null THEN ParseOk(PyNone, i + 4)
        ELSE IF c = 116 /\ Slice(s, i, 4) = S_true THEN ParseOk(JBool(TRUE), i + 4)
        ELSE IF c = 102 /\ Slice(s, i, 5) = S_false THEN ParseOk(JBool(FALSE), i + 5)
        ELSE IF num.ok THEN num
        ELSE IF c = 78 /\ Slice(s, i, 3) = <<78, 97, 78>>
             THEN ParseOk([t |-> "float", v |-> Slice(s, i, 3)], i + 3)
        ELSE IF c = 73 /\ Slice(s, i, 8) = <<73, 110, 102, 105, 110, 105, 116, 121>>
             THEN ParseOk([t |-> "float", v |-> Slice(s, i, 8)], i + 8)
        ELSE IF c = 45 /\ Slice(s, i, 9) = <<45, 73, 110, 102, 105, 110, 105, 116, 121>>
             THEN ParseOk([t |-> "float", v |-> Slice(s, i, 9)], i + 9)
        ELSE ParseFail

\* raw_decode's result r must be followed by nothing but whitespace
loads_end(text, r) ==
    IF At(text, 1) = 65279 THEN Raised("JSONDecodeError")
    ELSE IF r.ok /\ SkipWs(text, r.i) = Len(text) + 1 THEN r.v
    ELSE Raised("JSONDecodeError")

json_loads(text) == loads_end(text, ParseValue(text, SkipWs(text, 1)))

(***************************************************************************)
(* call_whatsminer, up to the hand-off to the transport: the request the   *)
(* call builds from its arguments and the clock, or the exception it       *)
(* raises.  cmd, account and account_password are strings; param is a      *)
(* value or None, salt a string or None, ts an int or None.                *)
(***************************************************************************)
ENCRYPTED_COMMANDS_pools_only == {CMD_set_miner_pools}

ENCRYPTED_COMMANDS == {CMD_set_miner_pools, CMD_set_user_change_passwd}

SALT_REQUIRED ==
    "Salt is required for set.* commands. Obtain it via get.device.info (param: \"salt\")."
PARAM_REQUIRED == "Command {cmd} requires 'param'."

RaisedMsg(kind, msg) == [t |-> "exc", v |-> kind, msg |-> msg]

\* line 155: is_set_cmd = cmd.startswith("set.")
is_set_cmd_no_dot(cmd) == startswith(cmd, <<115, 101, 116>>)

is_set_cmd_of(cmd) == startswith(cmd, S_set_dot)

\* line 156: ts_val = ts if ts is not None else (now_ts_int() if is_set_cmd else None)
ts_val_truthy(ts, is_set_cmd, now) ==
    IF ts # PyNone /\ ts # JInt(0) THEN ts ELSE IF is_set_cmd THEN JInt(now) ELSE PyNone

ts_val_of(ts, is_set_cmd, now) ==
    IF ts # PyNone THEN ts ELSE IF is_set_cmd THEN JInt(now) ELSE PyNone

\* line 159: if salt is None
salt_missing_unless_ts(salt, ts) == salt = PyNone /\ ts = PyNone

salt_missing(salt, ts) == salt = PyNone

\* a call_whatsminer that looks at param before it looks at salt
build_request_param_first(account, account_password, cmd, param, salt, ts, now) ==
    LET is_set_cmd == is_set_cmd_of(cmd)
        ts_val == ts_val_of(ts, is_set_cmd, now)
        request == <<<<S_cmd, JStr(cmd)>>>>
        tk == generate_token(cmd, account_password, salt, ts_val)
        updated == DictSet(DictSet(DictSet(request, S_ts, ts_val),
                                   S_token, JStr(tk.token)),
                           S_account, JStr(account))
        enc_b64 == encrypt_param_aes_ecb_base64(param, JBytes(tk.digest))
    IN  IF is_set_cmd THEN
            IF cmd \in ENCRYPTED_COMMANDS /\ param = PyNone
            THEN RaisedMsg("ValueError", PARAM_REQUIRED)
            ELSE IF salt_missing(salt, ts) THEN RaisedMsg("ValueError", SALT_REQUIRED)
            ELSE IF cmd \in ENCRYPTED_COMMANDS THEN
                IF IsRaised(enc_b64) THEN enc_b64
                ELSE JObj(DictSet(updated, S_param, enc_b64))
            ELSE IF param # PyNone THEN JObj(DictSet(updated, S_param, param))
            ELSE JObj(updated)
        ELSE IF param # PyNone THEN JObj(DictSet(request, S_param, param))
        ELSE JObj(request)

\* call_whatsminer, lines 154-173: the request, or the exception raised
build_request(account, account_password, cmd, param, salt, ts, now) ==
    LET is_set_cmd == is_set_cmd_of(cmd)
        ts_val == ts_val_of(ts, is_set_cmd, now)
        request == <<<<S_cmd, JStr(cmd)>>>>
        tk == generate_token(cmd, account_password, salt, ts_val)
        updated == DictSet(DictSet(DictSet(request, S_ts, ts_val),
                                   S_token, JStr(tk.token)),
                           S_account, JStr(account))
        enc_b64 == encrypt_param_aes_ecb_base64(param, JBytes(tk.digest))
    IN  IF is_set_cmd THEN
            IF salt_missing(salt, ts) THEN RaisedMsg("ValueError", SALT_REQUIRED)
            ELSE IF cmd \in ENCRYPTED_COMMANDS THEN
                IF param = PyNone THEN RaisedMsg("ValueError", PARAM_REQUIRED)
                ELSE IF IsRaised(enc_b64) THEN enc_b64
                ELSE JObj(DictSet(updated, S_param, enc_b64))
            ELSE IF param # PyNone THEN JObj(DictSet(updated, S_param, param))
            ELSE JObj(updated)
        ELSE IF param # PyNone THEN JObj(DictSet(request, S_param, param))
        ELSE JObj(request)

(***************************************************************************)
(* The wire format of send_request_and_receive.                            *)
(***************************************************************************)
\* struct.pack("<I", n)
PackU32LE(n) == <<n % 256, (n \div 256) % 256, (n \div 65536) % 256, (n \div 16777216) % 256>>

\* struct.unpack("<I", header)[0]
UnpackU32LE(h) == h[1] + 256 * h[2] + 65536 * h[3] + 16777216 * h[4]

\* str.encode("ascii", errors="ignore"): characters above 127 are dropped
AsciiEncodeIgnore(s) == SelectSeq(s, LAMBDA c : c < 128)

\* req_bytes of send_request_and_receive
req_bytes_of(request_obj) == AsciiEncodeIgnore(json_dumps(request_obj))

\* line 112: length = len(req_bytes)
frame_length_of_text(request_obj) == Len(json_dumps(request_obj))

frame_length(request_obj) == Len(req_bytes_of(request_obj))

\* lines 125-129: what send_request_and_receive returns for a complete payload
decode_response_no_fallback(resp_bytes) == json_loads(Utf8DecodeIgnore(resp_bytes))

decode_response(resp_bytes) ==
    LET resp_text == Utf8DecodeIgnore(resp_bytes)
        parsed == json_loads(resp_text)
    IN  IF IsRaised(parsed) THEN JObj(<<<<S_raw, JStr(resp_text)>>>>) ELSE parsed

\* line 120: if resp_len == 0
is_empty_response_never(n) == FALSE

is_empty_response(n) == n = 0

\* line 95: the argument of sock.recv in recvall
recv_bufsize_fixed(n, have) == 4096

recv_bufsize(n, have) == n - have

\* line 113: leaving the with block closes the socket, on return and on raise
with_exit_leak(s) == s

with_exit(s) == "closed"

(***************************************************************************)
(* Bounds of the model and the inputs drawn within them.                   *)
(***************************************************************************)
MaxTicks == 1      \* seconds that may pass before the call reads the clock
MaxBody == 3       \* payload bytes a peer sends at most on one connection

\* the clock when the first call starts
Clock0 == 1700000000

PoolsParam ==
    JObj(<<<<S_pools, JArr(<<JObj(<<<<S_url, JStr(S_pool)>>, <<S_user, JStr(S_u)>>,
                                    <<S_pass, JStr(S_x)>>>>)>>)>>>>)

Accounts == {S_super}
Passwords == {S_passw0rd}
Cmds == {CMD_get_device_info, CMD_settings, CMD_set_miner_power, CMD_set_miner_pools,
         CMD_set_user_change_passwd}
\* a string with two characters outside ASCII: p, u-umlaut, l, euro sign
NonAsciiParam == JStr(<<112, 252, 108, 8364>>)

Params == {PyNone, JInt(3200), PoolsParam, NonAsciiParam}
Salts == {PyNone, JStr(S_salt123)}
TsArgs == {PyNone, JInt(0), JInt(1111)}

CallArgs ==
    [account : Accounts, account_password : Passwords, cmd : Cmds,
     param : Params, salt : Salts, ts : TsArgs]

\* Bytes of a response payload: '{', '}', '1', '"' and 0xFF (never valid in UTF-8).
PayloadBytes == {123, 125, 49, 34, 255}

\* Response headers: the lengths 0..MaxBody, and 256 (second byte set).
Headers == {<<n, 0, 0, 0>> : n \in 0..MaxBody} \cup {<<0, 1, 0, 0>>}

RECURSIVE BytesOfLen(_)
BytesOfLen(k) ==
    IF k = 0 THEN {<<>>} ELSE {Append(b, c) : b \in BytesOfLen(k - 1), c \in PayloadBytes}

(***************************************************************************)
(* Files.  A file system maps a path to the text of the file, or to None   *)
(* when there is no such file.  Operations that touch files return their   *)
(* value together with the accesses they made, in order.                   *)
(***************************************************************************)
\* a path, as the command line or a caller gives it
Path(name) == [t |-> "path", v |-> name]

FsExists(path) == <<"exists", path>>
FsOpen(path) == <<"open", path>>

WithLog(value, log) == [value |-> value, log |-> log]

\* load_miner_conf(path): {} when the file does not exist, else json.load
load_miner_conf(path, files) ==
    IF files[path.v] = PyNone THEN WithLog(JObj(<<>>), <<FsExists(path)>>)
    ELSE WithLog(json_loads(files[path.v].v), <<FsExists(path), FsOpen(path)>>)

(***************************************************************************)
(* parse_scalar(value).  str.strip and str.lower are modelled for ASCII    *)
(* text; int(v), int(v, 16) and float(v) for the numerals written with     *)
(* ASCII digits and no underscore: a decimal or hexadecimal integer, a     *)
(* decimal fraction without exponent and of a size that repr writes        *)
(* without exponent, inf and nan.  A float is kept as the text repr gives. *)
(***************************************************************************)
S_none == <<110,111,110,101>>  \* 'none'
S_0x == <<48,120>>  \* '0x'
S_inf == <<105,110,102>>  \* 'inf'
S_infinity == <<105,110,102,105,110,105,116,121>>  \* 'infinity'
S_nan == <<110,97,110>>  \* 'nan'
S_Infinity == <<73,110,102,105,110,105,116,121>>  \* 'Infinity'
S_NaN == <<78,97,78>>  \* 'NaN'

IsSpace(c) == c \in {32, 9, 10, 11, 12, 13}

RECURSIVE LStrip(_)
LStrip(s) == IF s # <<>> /\ IsSpace(Head(s)) THEN LStrip(Tail(s)) ELSE s

RECURSIVE RStrip(_)
RStrip(s) == IF s # <<>> /\ IsSpace(s[Len(s)]) THEN RStrip(SubSeq(s, 1, Len(s) - 1)) ELSE s

strip(s) == RStrip(LStrip(s))

lower(s) == [i \in 1..Len(s) |-> IF s[i] >= 65 /\ s[i] <= 90 THEN s[i] + 32 ELSE s[i]]

AllDigits(s) == s # <<>> /\ \A i \in 1..Len(s) : IsDigit(s[i])
AllHex(s) == s # <<>> /\ \A i \in 1..Len(s) : IsHex(s[i])

HasSign(s) == s # <<>> /\ s[1] \in {43, 45}
Unsigned(s) == IF HasSign(s) THEN Tail(s) ELSE s
SignOf(s) == IF s # <<>> /\ s[1] = 45 THEN -1 ELSE 1

RECURSIVE HexDigitsVal(_, _)
HexDigitsVal(ds, acc) ==
    IF ds = <<>> THEN acc ELSE HexDigitsVal(Tail(ds), acc * 16 + HexVal(Head(ds)))

\* int(v): an optional sign and decimal digits
IsIntText(v) == AllDigits(Unsigned(v))
IntOfText(v) == SignOf(v) * DigitsVal(Unsigned(v), 0)

\* int(v, 16) for a text that starts with 0x or 0X
IsHexText(v) == AllHex(SubSeq(v, 3, Len(v)))
HexOfText(v) == HexDigitsVal(SubSeq(v, 3, Len(v)), 0)

\* the place of the point in s, 0 when there is none
PointAt(s) == IF \E i \in 1..Len(s) : s[i] = 46 THEN CHOOSE i \in 1..Len(s) : s[i] = 46 ELSE 0

\* float(v): digits with one point, digits on at least one side of it; or
\* inf, infinity, nan in any case; each with an optional sign
IsFloatText(v) ==
    LET u == Unsigned(v)
        k == PointAt(u)
        ip == SubSeq(u, 1, k - 1)
        fp == SubSeq(u, k + 1, Len(u))
    IN  \/ lower(u) \in {S_inf, S_infinity, S_nan}
        \/ /\ k > 0
           /\ ip # <<>> \/ fp # <<>>
           /\ ip = <<>> \/ AllDigits(ip)
           /\ fp = <<>> \/ AllDigits(fp)

RECURSIVE DropLeadingZeros(_)
DropLeadingZeros(ds) ==
    IF Len(ds) > 1 /\ Head(ds) = 48 THEN DropLeadingZeros(Tail(ds)) ELSE ds

RECURSIVE DropTrailingZeros(_)
DropTrailingZeros(ds) ==
    IF Len(ds) > 1 /\ ds[Len(ds)] = 48 THEN DropTrailingZeros(SubSeq(ds, 1, Len(ds) - 1)) ELSE ds

\* the text json.dumps and repr give for float(v)
FloatOfText(v) ==
    LET u == Unsigned(v)
        k == PointAt(u)
        ip == DropLeadingZeros(IF k <= 1 THEN <<48>> ELSE SubSeq(u, 1, k - 1))
        fp == DropTrailingZeros(IF k = Len(u) THEN <<48>> ELSE SubSeq(u, k + 1, Len(u)))
        minus == IF SignOf(v) = -1 THEN <<45>> ELSE <<>>
    IN  [t |-> "float",
         v |-> IF lower(u) = S_nan THEN S_NaN
               ELSE IF lower(u) \in {S_inf, S_infinity} THEN minus \o S_Infinity
               ELSE minus \o ip \o <<46>> \o fp]

parse_scalar(value) ==
    IF value = PyNone THEN PyNone
    ELSE
        LET v == strip(value.v)
            low == lower(v)
        IN  IF low = S_true THEN JBool(TRUE)
            ELSE IF low = S_false THEN JBool(FALSE)
            ELSE IF low \in {S_null, S_none} THEN PyNone
            ELSE IF startswith(low, S_0x) /\ IsHexText(v) THEN JInt(HexOfText(v))
            ELSE IF ~startswith(low, S_0x) /\ IsIntText(v) THEN JInt(IntOfText(v))
            ELSE IF IsFloatText(v) THEN FloatOfText(v)
            ELSE JStr(v)

(***************************************************************************)
(* resolve_param_inputs(param_scalar, param_json, param_file): the first   *)
(* of the three that is not None decides.                                  *)
(***************************************************************************)
\* lines 230-234: json.loads(param_json), any exception becomes ValueError
\* lines 231-233 and 240-242: a JSONDecodeError becomes a ValueError
value_error_of(r) == IF IsRaised(r) THEN Raised("ValueError") ELSE r

param_from_json(param_json) == value_error_of(json_loads(param_json.v))

\* lines 235-242: the file must exist; json.load of its text
param_from_file(param_file, files) ==
    IF files[param_file.v] = PyNone
    THEN WithLog(Raised("FileNotFoundError"), <<FsExists(param_file)>>)
    ELSE WithLog(value_error_of(json_loads(files[param_file.v].v)),
                 <<FsExists(param_file), FsOpen(param_file)>>)

resolve_param_inputs_file_first(param_scalar, param_json, param_file, files) ==
    IF param_file # PyNone THEN param_from_file(param_file, files)
    ELSE IF param_scalar # PyNone THEN WithLog(parse_scalar(param_scalar), <<>>)
    ELSE IF param_json # PyNone THEN WithLog(param_from_json(param_json), <<>>)
    ELSE WithLog(PyNone, <<>>)

resolve_param_inputs(param_scalar, param_json, param_file, files) ==
    IF param_scalar # PyNone THEN WithLog(parse_scalar(param_scalar), <<>>)
    ELSE IF param_json # PyNone THEN WithLog(param_from_json(param_json), <<>>)
    ELSE IF param_file # PyNone THEN param_from_file(param_file, files)
    ELSE WithLog(PyNone, <<>>)

(***************************************************************************)
(* State.  One call of call_whatsminer at a time; its locals and the       *)
(* connection it opens.                                                    *)
(***************************************************************************)
VARIABLES
    args,       \* the arguments of the running call
    now,        \* the clock, as now_ts_int() last returned it
    pc,         \* where the call is: call, connect, send_len, send_body,
                \* recv_header, recv_body, done
    request,    \* the request object handed to the transport (None before)
    result,     \* what the call returned or raised (pending before)
    sock,       \* the socket of the call: none, open, closed
    conns,      \* connections opened so far
    sent,       \* bytes written to the current connection by sendall
    rx,         \* bytes the current connection's recv calls have returned
    data,       \* recvall's buffer
    resp_len,   \* the declared response length (-1 before the header is read)
    opts,       \* the command line, the config file and the files of a CLI run
    cli_pc,     \* where main is: none (no CLI run), main, get_salt, fetch,
                \* preview, call, exit
    conn,       \* main's host, port, account and password
    param_obj,  \* main's param_obj
    provided_salt,  \* main's provided_salt
    preview,    \* the request preview main printed (None when it printed none)
    status,     \* the exit status of main (-1 while it runs)
    wire,       \* the calls main has completed: command, bytes sent, outcome
    fs_log      \* the paths tested for existence or opened, in order

cli_vars == <<opts, cli_pc, conn, param_obj, provided_salt, preview, status, wire, fs_log>>

vars == <<args, now, pc, request, result, sock, conns, sent, rx, data, resp_len, cli_vars>>

\* no CLI run: call_whatsminer and its helpers are used as a library
CliIdle ==
    /\ opts = PyNone
    /\ cli_pc = "none"
    /\ conn = PyNone
    /\ param_obj = PyNone
    /\ provided_salt = PyNone
    /\ preview = PyNone
    /\ status = -1
    /\ wire = <<>>
    /\ fs_log = <<>>

NoResult == [t |-> "pending"]
Returned(v) == [t |-> "return", v |-> v]

Init ==
    /\ args \in CallArgs
    /\ now = Clock0
    /\ pc = "call"
    /\ request = PyNone
    /\ result = NoResult
    /\ sock = "none"
    /\ conns = 0
    /\ sent = <<>>
    /\ rx = <<>>
    /\ data = <<>>
    /\ resp_len = -1
    /\ CliIdle

\* The call ends: it returns or raises `res`; a socket held by the with block
\* is released.
Finish(res, in_with) ==
    /\ result' = res
    /\ pc' = "done"
    /\ sock' = IF in_with THEN with_exit(sock) ELSE sock

\* now_ts_int() is evaluated on line 156 only for a set. command without ts
reads_clock(cmd, ts) == ts = PyNone /\ is_set_cmd_of(cmd)

\* call_whatsminer, lines 154-173: build the request or raise.  A clock read
\* returns the time that has passed since the last one.
CallWhatsminer ==
    /\ pc = "call"
    /\ \E t \in IF reads_clock(args.cmd, args.ts) THEN now..(Clock0 + MaxTicks) ELSE {now} :
          /\ now' = t
          /\ LET r == build_request(args.account, args.account_password, args.cmd,
                                    args.param, args.salt, args.ts, t)
             IN  IF IsRaised(r)
                 THEN Finish(r, FALSE) /\ UNCHANGED request
                 ELSE request' = r /\ pc' = "connect" /\ UNCHANGED <<result, sock>>
    /\ UNCHANGED <<args, conns, sent, rx, data, resp_len>>
    /\ UNCHANGED cli_vars

\* socket.create_connection succeeds
Connect ==
    /\ pc = "connect"
    /\ sock' = "open"
    /\ conns' = conns + 1
    /\ sent' = <<>>
    /\ rx' = <<>>
    /\ pc' = "send_len"
    /\ UNCHANGED <<args, now, request, result, data, resp_len>>
    /\ UNCHANGED cli_vars

\* socket.create_connection raises (refused, unreachable, timed out)
ConnectFail ==
    /\ pc = "connect"
    /\ Finish(Raised("OSError"), FALSE)
    /\ UNCHANGED <<args, now, request, conns, sent, rx, data, resp_len>>
    /\ UNCHANGED cli_vars

\* s.sendall(struct.pack("<I", length))
SendLength ==
    /\ pc = "send_len"
    /\ sent' = sent \o PackU32LE(frame_length(request))
    /\ pc' = "send_body"
    /\ UNCHANGED <<args, now, request, result, sock, conns, rx, data, resp_len>>
    /\ UNCHANGED cli_vars

\* s.sendall(req_bytes)
SendPayload ==
    /\ pc = "send_body"
    /\ sent' = sent \o req_bytes_of(request)
    /\ pc' = "recv_header"
    /\ data' = <<>>
    /\ UNCHANGED <<args, now, request, result, sock, conns, rx, resp_len>>
    /\ UNCHANGED cli_vars

\* either sendall raises (broken pipe, reset, timed out)
SendFail ==
    /\ pc \in {"send_len", "send_body"}
    /\ Finish(Raised("OSError"), TRUE)
    /\ UNCHANGED <<args, now, request, conns, sent, rx, data, resp_len>>
    /\ UNCHANGED cli_vars

\* the n of the running recvall
Wanted == IF pc = "recv_header" THEN 4 ELSE resp_len

InRecvall == pc \in {"recv_header", "recv_body"} /\ Len(data) < Wanted

\* What the peer may deliver next, at most `k` bytes of it: the rest of a
\* header, then payload bytes, MaxBody of them at most.
HeaderParts(k) ==
    IF Len(rx) >= 4 THEN {<<>>}
    ELSE {SubSeq(h, Len(rx) + 1, IF Len(rx) + k > 4 THEN 4 ELSE Len(rx) + k) :
            h \in {hd \in Headers : IsPrefix(rx, hd)}}

Chunks(k) ==
    LET hlen == IF Len(rx) >= 4 THEN 0 ELSE IF Len(rx) + k > 4 THEN 4 - Len(rx) ELSE k
        had == IF Len(rx) > 4 THEN Len(rx) - 4 ELSE 0
        room == IF k - hlen > MaxBody - had THEN MaxBody - had ELSE k - hlen
    IN  {h \o b : h \in HeaderParts(k), b \in BytesOfLen(room)} \ {<<>>}

\* recvall, lines 94-98: one sock.recv that returns 1..bufsize bytes
Recv ==
    /\ InRecvall
    /\ LET bufsize == recv_bufsize(Wanted, Len(data))
           most == IF bufsize > 4 + MaxBody THEN 4 + MaxBody ELSE bufsize
       IN  \E k \in 1..most :
              \E chunk \in Chunks(k) :
                 /\ data' = data \o chunk
                 /\ rx' = rx \o chunk
    /\ UNCHANGED <<args, now, pc, request, result, sock, conns, sent, resp_len>>
    /\ UNCHANGED cli_vars

\* a caller that reconnects when the peer closes
RecvEof_reconnect ==
    /\ InRecvall
    /\ pc' = "connect"
    /\ sock' = with_exit(sock)
    /\ UNCHANGED <<args, now, request, result, conns, sent, rx, data, resp_len>>
    /\ UNCHANGED cli_vars

\* sock.recv returns b"" (the peer closed): recvall returns None, lines 96-97,
\* and the caller raises ConnectionError, lines 117-118 and 123-124
RecvEof ==
    /\ InRecvall
    /\ Finish(Raised("ConnectionError"), TRUE)
    /\ UNCHANGED <<args, now, request, conns, sent, rx, data, resp_len>>
    /\ UNCHANGED cli_vars

\* sock.recv raises: the timeout expired, or the connection was reset
RecvRaise ==
    /\ InRecvall
    /\ \E kind \in {"TimeoutError", "ConnectionResetError"} : Finish(Raised(kind), TRUE)
    /\ UNCHANGED <<args, now, request, conns, sent, rx, data, resp_len>>
    /\ UNCHANGED cli_vars

\* lines 116-121: recvall(s, 4) returned the header
HeaderDone ==
    /\ pc = "recv_header"
    /\ Len(data) >= 4
    /\ IF Len(data) # 4
       THEN Finish(Raised("struct.error"), TRUE) /\ UNCHANGED <<data, resp_len>>
       ELSE /\ resp_len' = UnpackU32LE(data)
            /\ IF is_empty_response(resp_len')
               THEN Finish(Returned(JObj(<<>>)), TRUE) /\ UNCHANGED data
               ELSE pc' = "recv_body" /\ data' = <<>> /\ UNCHANGED <<result, sock>>
    /\ UNCHANGED <<args, now, request, conns, sent, rx>>
    /\ UNCHANGED cli_vars

\* lines 122-129: recvall(s, resp_len) returned the payload
BodyDone ==
    /\ pc = "recv_body"
    /\ Len(data) >= resp_len
    /\ LET r == decode_response(data)
       IN  Finish(IF IsRaised(r) THEN r ELSE Returned(r), TRUE)
    /\ UNCHANGED <<args, now, request, conns, sent, rx, data, resp_len>>
    /\ UNCHANGED cli_vars

Next ==
    \/ CallWhatsminer
    \/ Connect
    \/ ConnectFail
    \/ SendLength
    \/ SendPayload
    \/ SendFail
    \/ Recv
    \/ RecvEof
    \/ RecvRaise
    \/ HeaderDone
    \/ BodyDone

Spec == Init /\ [][Next]_vars

(***************************************************************************)
(* generate_token on its own: it is called with one argument tuple after   *)
(* another.  The arguments take in the vector of the repository's test,    *)
(* empty strings, and a negative, a zero and several positive ts.          *)
(***************************************************************************)
TokenPasswords == {S_passw0rd, <<>>}
TokenSalts == {JStr(S_salt123), JStr(<<>>), JStr(<<49>>)}
TokenTs == {JInt(0), JInt(0 - 5), JInt(7), JInt(17), JInt(1111), JInt(Clock0)}

TokenArgs == [cmd : Cmds, account_password : TokenPasswords, salt : TokenSalts, ts : TokenTs]

\* the first call is the one of the repository's test
InitToken ==
    /\ args = [cmd |-> CMD_set_miner_power, account_password |-> S_passw0rd,
               salt |-> JStr(S_salt123), ts |-> JInt(Clock0)]
    /\ now = Clock0
    /\ pc = "token"
    /\ request = PyNone
    /\ result = NoResult
    /\ sock = "none"
    /\ conns = 0
    /\ sent = <<>>
    /\ rx = <<>>
    /\ data = <<>>
    /\ resp_len = -1
    /\ CliIdle

\* token, digest = generate_token(cmd, account_password, salt, ts)
GenerateToken ==
    /\ pc = "token"
    /\ result' = Returned(generate_token(args.cmd, args.account_password, args.salt, args.ts))
    /\ pc' = "token_done"
    /\ UNCHANGED <<args, now, request, sock, conns, sent, rx, data, resp_len>>
    /\ UNCHANGED cli_vars

\* the next call, with any arguments
NextToken ==
    /\ pc = "token_done"
    /\ args' \in TokenArgs
    /\ result' = NoResult
    /\ pc' = "token"
    /\ UNCHANGED <<now, request, sock, conns, sent, rx, data, resp_len>>
    /\ UNCHANGED cli_vars

NextTokenSpec ==
    \/ GenerateToken
    \/ NextToken

SpecToken == InitToken /\ [][NextTokenSpec]_vars

(***************************************************************************)
(* encrypt_param_aes_ecb_base64 on its own.  The values are strings of     *)
(* every length 0..MaxStrLen, so that the serialization takes every length *)
(* modulo 16, and values of every JSON kind, with characters that JSON     *)
(* escapes and characters of 2, 3 and 4 UTF-8 bytes.  The keys are two     *)
(* SHA-256 digests.                                                        *)
(***************************************************************************)
MaxStrLen == 33

FooBarParam == JObj(<<<<S_foo, JStr(S_bar)>>, <<S_num, JInt(42)>>>>)

CodecValues ==
    {JStr(Repeat(97, n)) : n \in 0..MaxStrLen}
    \cup {PyNone, JBool(TRUE), JBool(FALSE), JInt(0), JInt(0 - 42), JInt(3200),
          [t |-> "float", v |-> <<49, 50, 46, 53>>],
          JStr(<<233>>), JStr(<<8364, 34, 92, 10>>), JStr(<<128512, 127>>),
          JArr(<<>>), JObj(<<>>), JArr(<<JInt(1), JStr(S_x), PyNone>>),
          PoolsParam, FooBarParam}

CodecKeys == {sha256_digest_bytes(S_encryption_key), sha256_digest_bytes(S_vector)}

InitCodec ==
    /\ args \in [param : CodecValues, key : CodecKeys]
    /\ now = Clock0
    /\ pc = "encrypt"
    /\ request = PyNone
    /\ result = NoResult
    /\ sock = "none"
    /\ conns = 0
    /\ sent = <<>>
    /\ rx = <<>>
    /\ data = <<>>
    /\ resp_len = -1
    /\ CliIdle

\* encoded = encrypt_param_aes_ecb_base64(param, aes_key)
EncryptParam ==
    /\ pc = "encrypt"
    /\ LET r == encrypt_param_aes_ecb_base64(args.param, JBytes(args.key))
       IN  result' = IF IsRaised(r) THEN r ELSE Returned(r)
    /\ pc' = "encrypt_done"
    /\ UNCHANGED <<args, now, request, sock, conns, sent, rx, data, resp_len>>
    /\ UNCHANGED cli_vars

NextCodecSpec ==
    \/ EncryptParam

SpecCodec == InitCodec /\ [][NextCodecSpec]_vars

(***************************************************************************)
(* The command-line tool, whatsminer_cli/cli.py (whatsminercli.py holds    *)
(* the same main).  One run of main makes up to two calls of               *)
(* call_whatsminer, one after the other; each call runs as the actions     *)
(* above do, on a fresh connection.                                        *)
(***************************************************************************)
S_host == <<104,111,115,116>>  \* 'host'
S_port == <<112,111,114,116>>  \* 'port'
S_login == <<108,111,103,105,110>>  \* 'login'
S_password == <<112,97,115,115,119,111,114,100>>  \* 'password'
S_msg == <<109,115,103>>  \* 'msg'
S_note == <<110,111,116,101>>  \* 'note'
S_salt_missing == <<115,97,108,116,32,109,105,115,115,105,110,103,59,32,116,111,107,101,110,32,110,111,116,32,99,111,109,112,117,116,101,100>>  \* 'salt missing; token not computed'
S_ENCRYPTED_BASE64 == <<60,69,78,67,82,89,80,84,69,68,95,66,65,83,69,54,52,62>>  \* '<ENCRYPTED_BASE64>'
S_10_0_0_2 == <<49,48,46,48,46,48,46,50>>  \* '10.0.0.2'
S_admin == <<97,100,109,105,110>>  \* 'admin'
S_ab == <<97,98>>  \* 'ab'
CONF_full == <<123,34,104,111,115,116,34,58,34,49,48,46,48,46,48,46,57,34,44,34,112,111,114,116,34,58,52,48,50,56,44,34,108,111,103,105,110,34,58,34,114,111,111,116,34,44,34,112,97,115,115,119,111,114,100,34,58,34,112,119,34,125>>  \* '{"host":"10.0.0.9","port":4028,"login":"root","password":"pw"}'
CONF_host_only == <<123,34,104,111,115,116,34,58,34,49,48,46,48,46,48,46,57,34,125>>  \* '{"host":"10.0.0.9"}'
CONF_list == <<91,49,93>>  \* '[1]'
CONF_bad == <<123>>  \* '{'
REPLY_salt == <<123,34,109,115,103,34,58,123,34,115,97,108,116,34,58,34,97,98,34,125,125>>  \* '{"msg":{"salt":"ab"}}'
REPLY_empty_salt == <<123,34,109,115,103,34,58,123,34,115,97,108,116,34,58,34,34,125,125>>  \* '{"msg":{"salt":""}}'
REPLY_msg_text == <<123,34,109,115,103,34,58,34,110,111,34,125>>  \* '{"msg":"no"}'
REPLY_list == <<91,49,93>>  \* '[1]'
REPLY_bad == <<120>>  \* 'x'

DEFAULT_PORT == 4433

\* bool(x)
Truthy(x) ==
    CASE x.t = "None" -> FALSE
      [] x.t = "bool" -> x.v
      [] x.t = "int" -> x.v # 0
      [] x.t = "float" -> x.v \notin {<<48, 46, 48>>, <<45, 48, 46, 48>>}
      [] OTHER -> x.v # <<>>

\* a or b
PyOr(a, b) == IF Truthy(a) THEN a ELSE b

\* isinstance(x, dict)
IsDict(x) == x.t = "obj"

\* d.get(k) of a dict d
dict_get(d, k) ==
    IF \E n \in 1..Len(d.v) : d.v[n][1] = k
    THEN d.v[CHOOSE n \in 1..Len(d.v) : d.v[n][1] = k][2]
    ELSE PyNone

\* line 66: host is None or password is None
config_missing_host_only(host, password) == host = PyNone

config_missing(host, password) == host = PyNone \/ password = PyNone

\* lines 61-64, for a conf that is a dict
connection_of(o, conf) ==
    [host |-> PyOr(o.host, dict_get(conf, S_host)),
     port |-> PyOr(PyOr(o.port, dict_get(conf, S_port)), JInt(DEFAULT_PORT)),
     account |-> PyOr(PyOr(o.login, dict_get(conf, S_login)), JStr(S_super)),
     password |-> PyOr(o.password, dict_get(conf, S_password))]

\* the arguments main gives call_whatsminer
call_args(c, cmd, param, salt, ts) ==
    [host |-> c.host, port |-> c.port,
     account |-> IF c.account.t = "str" THEN c.account.v ELSE c.account,
     account_password |-> IF c.password.t = "str" THEN c.password.v ELSE c.password,
     cmd |-> cmd, param |-> param, salt |-> salt, ts |-> ts]

\* lines 94-95: the salt main takes from the reply to get.device.info
salt_of_info(info, provided) ==
    IF IsDict(dict_get(info, S_msg)) /\ Truthy(dict_get(dict_get(info, S_msg), S_salt))
    THEN dict_get(dict_get(info, S_msg), S_salt)
    ELSE provided

\* lines 101-115: the request preview
build_preview(cmd, account, password, salt, ts, param, clock) ==
    LET ts_to_use == IF ts # PyNone THEN ts
                     ELSE IF startswith(cmd, S_set_dot) THEN JInt(clock) ELSE PyNone
        preview_req == <<<<S_cmd, JStr(cmd)>>>>
        token == generate_token(cmd, password, salt, ts_to_use).token
        updated == DictSet(DictSet(DictSet(preview_req, S_ts, ts_to_use),
                                   S_token, JStr(token)),
                           S_account, JStr(account))
    IN  IF startswith(cmd, S_set_dot) THEN
            IF Truthy(salt) THEN
                IF cmd \in ENCRYPTED_COMMANDS
                THEN JObj(DictSet(updated, S_param, JStr(S_ENCRYPTED_BASE64)))
                ELSE IF param # PyNone THEN JObj(DictSet(updated, S_param, param))
                ELSE JObj(updated)
            ELSE JObj(DictSet(preview_req, S_note, JStr(S_salt_missing)))
        ELSE IF param # PyNone THEN JObj(DictSet(preview_req, S_param, param))
        ELSE JObj(preview_req)

\* the frame of a device's reply
ReplyFrame(text) == PackU32LE(Len(Utf8Encode(text))) \o Utf8Encode(text)

\* What a device may send back: a salt, an empty salt, a msg that is no
\* object, a list, text that is not JSON, and the empty response.
Replies ==
    {ReplyFrame(t) : t \in {REPLY_salt, REPLY_empty_salt, REPLY_msg_text, REPLY_list,
                            REPLY_bad, <<>>}}

S_3200 == <<51,50,48,48>>  \* '3200'
POOLS_JSON == <<123,34,112,111,111,108,115,34,58,91,123,34,117,114,108,34,58,34,112,111,111,108,34,44,34,117,115,101,114,34,58,34,117,34,44,34,112,97,115,115,34,58,34,120,34,125,93,125>>  \* '{"pools":[{"url":"pool","user":"u","pass":"x"}]}'

PathNames == {"miner-conf.json", "param.json", "missing.json"}

\* a file system with the given config file and no other file
Files(conf_text) == [p \in PathNames |-> IF p = "miner-conf.json" THEN conf_text ELSE PyNone]

\* Runs that differ in where host, port, login and password come from; each
\* is a get-salt run.
ConfigRuns ==
    [action : {"get-salt"}, config : {Path("miner-conf.json")},
     files : {Files(t) : t \in {PyNone, JStr(CONF_full), JStr(CONF_host_only),
                                JStr(CONF_list), JStr(CONF_bad)}},
     host : {PyNone, JStr(<<>>), JStr(S_10_0_0_2)},
     port : {PyNone, JInt(4444)},
     login : {PyNone, JStr(S_admin)},
     password : {PyNone, JStr(S_passw0rd)},
     cmd : {CMD_get_device_info}, param : {JStr(S_salt)}, param_json : {PyNone},
     param_file : {PyNone}, salt : {PyNone}, ts : {PyNone}, show_request : {FALSE}]

\* the command of a call run and the one param source it names
CallInputs ==
    {[cmd |-> CMD_get_device_info, param |-> PyNone, param_json |-> PyNone],
     [cmd |-> CMD_set_miner_power, param |-> JStr(S_3200), param_json |-> PyNone],
     [cmd |-> CMD_set_miner_pools, param |-> PyNone, param_json |-> JStr(POOLS_JSON)],
     [cmd |-> CMD_set_miner_pools, param |-> PyNone, param_json |-> PyNone]}

\* Runs of the call action, host and password given on the command line.
CallRuns ==
    {[action |-> "call", config |-> Path("miner-conf.json"), files |-> Files(PyNone),
      host |-> JStr(S_10_0_0_2), port |-> PyNone, login |-> PyNone,
      password |-> JStr(S_passw0rd),
      cmd |-> i.cmd, param |-> i.param, param_json |-> i.param_json,
      param_file |-> PyNone, salt |-> sa, ts |-> ts, show_request |-> sh] :
        i \in CallInputs, sa \in {PyNone, JStr(<<>>), JStr(S_salt123)},
        ts \in {PyNone, JInt(1111)}, sh \in BOOLEAN}

InitCli ==
    /\ opts \in ConfigRuns \cup CallRuns
    /\ cli_pc = "main"
    /\ conn = PyNone
    /\ param_obj = PyNone
    /\ provided_salt = PyNone
    /\ preview = PyNone
    /\ status = -1
    /\ wire = <<>>
    /\ fs_log = <<>>
    /\ args = PyNone
    /\ now = Clock0
    /\ pc = "idle"
    /\ request = PyNone
    /\ result = NoResult
    /\ sock = "none"
    /\ conns = 0
    /\ sent = <<>>
    /\ rx = <<>>
    /\ data = <<>>
    /\ resp_len = -1

\* main calls call_whatsminer(...) with the arguments a
StartCall(a) ==
    /\ args' = a
    /\ pc' = "call"
    /\ request' = PyNone
    /\ result' = NoResult
    /\ sock' = "none"
    /\ conns' = 0
    /\ sent' = <<>>
    /\ rx' = <<>>
    /\ data' = <<>>
    /\ resp_len' = -1

\* main returns n, or an exception leaves it (status 1)
Exit(n) ==
    /\ status' = n
    /\ cli_pc' = "exit"

\* the call that has ended, as the run remembers it
Ended == [cmd |-> args.cmd, sent |-> sent, sock |-> sock, result |-> result]

NoCall == UNCHANGED <<args, pc, request, result, sock, conns, sent, rx, data, resp_len>>

\* main, lines 58-93: the configuration, then the start of the first call
Main ==
    /\ cli_pc = "main"
    /\ \E loaded \in {load_miner_conf(opts.config, opts.files)} :
       \E c \in {IF IsDict(loaded.value) THEN connection_of(opts, loaded.value) ELSE PyNone} :
          /\ conn' = c
          /\ IF IsRaised(loaded.value) \/ ~IsDict(loaded.value)
             THEN /\ Exit(1)
                  /\ fs_log' = loaded.log
                  /\ NoCall
                  /\ UNCHANGED <<param_obj, provided_salt>>
             ELSE IF config_missing(c.host, c.password)
             THEN /\ Exit(2)
                  /\ fs_log' = loaded.log
                  /\ NoCall
                  /\ UNCHANGED <<param_obj, provided_salt>>
             ELSE IF opts.action = "get-salt"
             THEN /\ StartCall(call_args(c, CMD_get_device_info, opts.param, PyNone, PyNone))
                  /\ cli_pc' = "get_salt"
                  /\ fs_log' = loaded.log
                  /\ UNCHANGED <<param_obj, provided_salt, status>>
             ELSE \E resolved \in {resolve_param_inputs(opts.param, opts.param_json,
                                                        opts.param_file, opts.files)} :
                  /\ fs_log' = loaded.log \o resolved.log
                  /\ IF IsRaised(resolved.value)
                     THEN /\ Exit(1)
                          /\ NoCall
                          /\ UNCHANGED <<param_obj, provided_salt>>
                     ELSE /\ param_obj' = resolved.value
                          /\ provided_salt' = opts.salt
                          /\ IF startswith(opts.cmd, S_set_dot) /\ ~Truthy(opts.salt)
                             THEN /\ StartCall(call_args(c, CMD_get_device_info,
                                                         JStr(S_salt), PyNone, PyNone))
                                  /\ cli_pc' = "fetch"
                             ELSE /\ cli_pc' = "preview"
                                  /\ NoCall
                          /\ UNCHANGED status
    /\ UNCHANGED <<opts, now, preview, wire>>

\* lines 73-83: the get-salt call has ended
GetSaltDone ==
    /\ cli_pc = "get_salt"
    /\ pc = "done"
    /\ wire' = Append(wire, Ended)
    /\ Exit(IF IsRaised(result) THEN 1 ELSE 0)
    /\ pc' = "idle"
    /\ UNCHANGED <<args, now, request, result, sock, conns, sent, rx, data, resp_len>>
    /\ UNCHANGED <<opts, conn, param_obj, provided_salt, preview, fs_log>>

\* lines 93-98: the call that fetches the salt has ended
FetchDone ==
    /\ cli_pc = "fetch"
    /\ pc = "done"
    /\ wire' = Append(wire, Ended)
    /\ IF IsRaised(result) \/ ~IsDict(result.v)
       THEN Exit(1) /\ UNCHANGED provided_salt
       ELSE /\ provided_salt' = salt_of_info(result.v, provided_salt)
            /\ cli_pc' = "preview"
            /\ UNCHANGED status
    /\ pc' = "idle"
    /\ UNCHANGED <<args, now, request, result, sock, conns, sent, rx, data, resp_len>>
    /\ UNCHANGED <<opts, conn, param_obj, preview, fs_log>>

\* now_ts_int() is evaluated on line 101 for a set. command without --ts
preview_reads_clock == opts.show_request /\ opts.ts = PyNone /\ startswith(opts.cmd, S_set_dot)

\* lines 100-120: the preview, if asked for, then the start of the call
ShowRequestAndCall ==
    /\ cli_pc = "preview"
    /\ \E t \in IF preview_reads_clock THEN now..(Clock0 + MaxTicks) ELSE {now} :
          /\ now' = t
          /\ preview' = IF opts.show_request
                        THEN build_preview(opts.cmd, conn.account.v, conn.password.v,
                                           provided_salt, opts.ts, param_obj, t)
                        ELSE PyNone
    /\ StartCall(call_args(conn, opts.cmd, param_obj, provided_salt, opts.ts))
    /\ cli_pc' = "call"
    /\ UNCHANGED <<opts, conn, param_obj, provided_salt, status, wire, fs_log>>

\* lines 120-130: the call has ended
CallDone ==
    /\ cli_pc = "call"
    /\ pc = "done"
    /\ wire' = Append(wire, Ended)
    /\ Exit(IF IsRaised(result) THEN 1 ELSE 0)
    /\ pc' = "idle"
    /\ UNCHANGED <<args, now, request, result, sock, conns, sent, rx, data, resp_len>>
    /\ UNCHANGED <<opts, conn, param_obj, provided_salt, preview, fs_log>>

\* recvall, lines 94-98, with a device at the other end: one sock.recv that
\* returns the next 1..bufsize bytes of a reply
RecvReply ==
    /\ InRecvall
    /\ \E r \in Replies :
          /\ IsPrefix(rx, r)
          /\ Len(rx) < Len(r)
          /\ \E k \in 1..recv_bufsize(Wanted, Len(data)) :
                /\ Len(rx) + k <= Len(r)
                /\ data' = data \o SubSeq(r, Len(rx) + 1, Len(rx) + k)
                /\ rx' = rx \o SubSeq(r, Len(rx) + 1, Len(rx) + k)
    /\ UNCHANGED <<args, now, pc, request, result, sock, conns, sent, resp_len>>
    /\ UNCHANGED cli_vars

NextCli ==
    \/ Main
    \/ GetSaltDone
    \/ FetchDone
    \/ ShowRequestAndCall
    \/ CallDone
    \/ CallWhatsminer
    \/ Connect
    \/ ConnectFail
    \/ SendLength
    \/ SendPayload
    \/ SendFail
    \/ RecvReply
    \/ RecvEof
    \/ RecvRaise
    \/ HeaderDone
    \/ BodyDone

SpecCli == InitCli /\ [][NextCli]_vars

(***************************************************************************)
(* Properties of call_whatsminer.                                          *)
(***************************************************************************)
DictKeys(kvs) == {kvs[n][1] : n \in 1..Len(kvs)}
DictGet(kvs, k) == kvs[CHOOSE n \in 1..Len(kvs) : kvs[n][1] = k][2]

AuthKeys == {S_ts, S_token, S_account}

\* the command begins with the four characters s, e, t, '.'
Mutating(cmd) == Len(cmd) >= 4 /\ cmd[1] = 115 /\ cmd[2] = 101 /\ cmd[3] = 116 /\ cmd[4] = 46

\* the request has been built and is being handed to send_request_and_receive
Handed == pc = "connect"

\* what a receiver does with an encrypted param: base64-decode, decrypt,
\* strip the padding, decode UTF-8, parse JSON
Decrypted(b64, key) ==
    LET ct == b64decode(b64)
        padded == IF IsRaised(ct) THEN ct ELSE AesEcbDecrypt(key, ct.v)
        plain == IF IsRaised(padded) THEN padded ELSE unpad_pkcs7(padded.v)
        text == IF IsRaised(plain) THEN plain ELSE Utf8DecodeStrict(plain.v)
    IN  IF IsRaised(text) THEN text ELSE json_loads(text.v)

\* C1: every request handed to the transport carries cmd, equal to the command
\* asked for; ts, token and account are all present when the command starts
\* with "set." and all absent otherwise, and then the request is exactly cmd
\* plus the param as given, if one was given.
C1_RequestKeys ==
    Handed =>
        /\ request.t = "obj"
        /\ S_cmd \in DictKeys(request.v)
        /\ DictGet(request.v, S_cmd) = JStr(args.cmd)
        /\ Mutating(args.cmd) => AuthKeys \subseteq DictKeys(request.v)
        /\ ~Mutating(args.cmd) =>
              /\ AuthKeys \cap DictKeys(request.v) = {}
              /\ request.v = IF args.param = PyNone
                             THEN <<<<S_cmd, JStr(args.cmd)>>>>
                             ELSE <<<<S_cmd, JStr(args.cmd)>>, <<S_param, args.param>>>>

\* "settings" is asked for with a salt, a ts and a param: the request handed
\* over is cmd and param only
C1_Witness ==
    /\ pc = "connect"
    /\ args.cmd = CMD_settings
    /\ args.salt # PyNone
    /\ args.ts # PyNone
    /\ args.param = JInt(3200)
    /\ request = JObj(<<<<S_cmd, JStr(CMD_settings)>>, <<S_param, JInt(3200)>>>>)

\* C2: a "set." command called without a salt raises ValueError, whether or
\* not a ts was given, and nothing was done before that: no request handed
\* over, no connection opened, nothing sent.
C2_SaltRequired ==
    (pc # "call" /\ Mutating(args.cmd) /\ args.salt = PyNone) =>
        /\ pc = "done"
        /\ result = RaisedMsg("ValueError", SALT_REQUIRED)
        /\ ~Handed
        /\ conns = 0
        /\ sock = "none"
        /\ sent = <<>>

\* set.miner.power without salt but with a ts has raised
C2_Witness ==
    /\ pc = "done"
    /\ args.cmd = CMD_set_miner_power
    /\ args.salt = PyNone
    /\ args.ts = JInt(1111)
    /\ result.t = "exc"
    /\ result.v = "ValueError"

\* C3: in the request of a "set." command ts is the caller's ts when one was
\* given (0 included) and otherwise the clock as read when the request was
\* built; token is the token generated from cmd, password, salt and that same
\* ts; account is the account name as given.
C3_TsTokenAccount ==
    (Handed /\ Mutating(args.cmd)) =>
        /\ AuthKeys \subseteq DictKeys(request.v)
        /\ DictGet(request.v, S_ts) = (IF args.ts # PyNone THEN args.ts ELSE JInt(now))
        /\ DictGet(request.v, S_token) =
              JStr(generate_token(args.cmd, args.account_password, args.salt,
                                  DictGet(request.v, S_ts)).token)
        /\ DictGet(request.v, S_account) = JStr(args.account)

\* the caller gave ts = 0 and the request carries 0, although the clock is not 0
C3_Witness ==
    /\ pc = "connect"
    /\ args.cmd = CMD_set_miner_power
    /\ args.ts = JInt(0)
    /\ now # 0
    /\ AuthKeys \subseteq DictKeys(request.v)
    /\ DictGet(request.v, S_ts) = JInt(0)

\* C4: the param of a "set." request, when one was given: for set.miner.pools
\* and set.user.change_passwd it is a string, the base64 ciphertext of the
\* given param under the digest of the request's own token input, which
\* decrypts back to the given param; for every other "set." command it is
\* the given param itself.
C4_ParamEncryption ==
    (Handed /\ Mutating(args.cmd) /\ args.param # PyNone) =>
        /\ (AuthKeys \cup {S_param}) \subseteq DictKeys(request.v)
        /\ LET p == DictGet(request.v, S_param)
               key == generate_token(args.cmd, args.account_password, args.salt,
                                     DictGet(request.v, S_ts)).digest
           IN  IF args.cmd \in {CMD_set_miner_pools, CMD_set_user_change_passwd}
               THEN /\ p.t = "str"
                    /\ p # args.param
                    /\ p = encrypt_param_aes_ecb_base64(args.param, JBytes(key))
                    /\ Decrypted(p.v, key) = args.param
               ELSE p = args.param

\* set.user.change_passwd with a param: the request carries a string that
\* decrypts to the param
C4_Witness ==
    /\ pc = "connect"
    /\ args.cmd = CMD_set_user_change_passwd
    /\ args.param = PoolsParam
    /\ S_param \in DictKeys(request.v)
    /\ DictGet(request.v, S_param).t = "str"

(***************************************************************************)
(* Properties of generate_token.                                           *)
(***************************************************************************)
\* d is the decimal numeral of n: a minus sign when n is negative, then
\* digits with no leading zero, whose value is the magnitude of n
IsDecimalOf(d, n) ==
    LET digits == IF n < 0 THEN Tail(d) ELSE d
    IN  /\ d # <<>>
        /\ n < 0 => d[1] = 45
        /\ digits # <<>>
        /\ \A i \in 1..Len(digits) : IsDigit(digits[i])
        /\ Len(digits) > 1 => digits[1] # 48
        /\ DigitsVal(digits, 0) = (IF n < 0 THEN 0 - n ELSE n)

\* C5: whatever calls came before, generate_token returns as key the SHA-256
\* digest of cmd, password, salt and the decimal numeral of ts written one
\* after another with nothing between them, and as token the first 8
\* characters of the base64 text of that key: exactly 8 characters of the
\* base64 alphabet, which decode to the first 6 bytes of the key.
C5_Token ==
    pc = "token_done" =>
        /\ result.t = "return"
        /\ LET tk == result.v
               d == IntStr(args.ts.v)
               text == args.cmd \o args.account_password \o args.salt.v \o d
           IN  /\ IsDecimalOf(d, args.ts.v)
               /\ Len(text) = Len(args.cmd) + Len(args.account_password)
                                + Len(args.salt.v) + Len(d)
               /\ tk.digest = sha256_digest_bytes(text)
               /\ Len(tk.digest) = 32
               /\ tk.token = SubSeq(b64encode(tk.digest), 1, 8)
               /\ Len(tk.token) = 8
               /\ \A i \in 1..8 : IsB64Char(tk.token[i])
               /\ b64decode(tk.token) = JBytes(SubSeq(tk.digest, 1, 6))

\* the vector of the repository's test: the key is the digest of the literal
\* text set.miner.powerpassw0rdsalt1231700000000
C5_Witness ==
    /\ pc = "token_done"
    /\ args.cmd = CMD_set_miner_power
    /\ args.account_password = S_passw0rd
    /\ args.salt = JStr(S_salt123)
    /\ args.ts = JInt(1700000000)
    /\ result.t = "return"
    /\ result.v.digest = sha256_digest_bytes(S_vector)
    /\ result.v.token = SubSeq(b64encode(sha256_digest_bytes(S_vector)), 1, 8)

(***************************************************************************)
(* Properties of encrypt_param_aes_ecb_base64.                             *)
(***************************************************************************)
\* C6: the result of encrypt_param_aes_ecb_base64 is base64 text; decoded
\* and decrypted under the same key it is a whole number of 16-byte blocks
\* that end in 1 to 16 padding bytes, each equal to their count; without
\* them it is the UTF-8 compact JSON text of the value, and that text
\* parses to the value.
C6_RoundTrip ==
    pc = "encrypt_done" =>
        /\ result.t = "return"
        /\ result.v.t = "str"
        /\ ~IsRaised(b64decode(result.v.v))
        /\ ~IsRaised(AesEcbDecrypt(args.key, b64decode(result.v.v).v))
        /\ LET p == AesEcbDecrypt(args.key, b64decode(result.v.v).v).v
               n == Len(p)
               plain == Utf8Encode(json_dumps(args.param))
           IN  /\ n > 0
               /\ n % 16 = 0
               /\ p[n] \in 1..16
               /\ \A i \in (n - p[n] + 1)..n : p[i] = p[n]
               /\ n = Len(plain) + p[n]
               /\ unpad_pkcs7(p) = JBytes(plain)
               /\ Utf8DecodeStrict(plain) = JStr(json_dumps(args.param))
               /\ json_loads(json_dumps(args.param)) = args.param
               /\ Decrypted(result.v.v, args.key) = args.param

\* the pools param serializes to 48 bytes, three whole blocks: a fourth block
\* of padding was added and the value came back
C6_Witness ==
    /\ pc = "encrypt_done"
    /\ args.param = PoolsParam
    /\ Len(Utf8Encode(json_dumps(args.param))) = 48
    /\ result.t = "return"
    /\ Len(b64decode(result.v.v).v) = 64
    /\ Decrypted(result.v.v, args.key) = PoolsParam

(***************************************************************************)
(* Properties of send_request_and_receive.                                 *)
(***************************************************************************)
\* the declared length, once the header has been unpacked, else 0
PayloadLen == IF resp_len > 0 THEN resp_len ELSE 0

\* the call is over and had sent its whole frame, so it had begun to read
ReadPhaseOver == pc = "done" /\ Len(sent) > 4

\* what a failed or timed-out read raises
ReadErrors == {"ConnectionError", "TimeoutError", "ConnectionResetError"}

\* C7: once the header has declared the length 0 the call is over: it has
\* returned the empty object, the four header bytes are all it has read, and
\* the reading of a payload is entered with a positive length only.
C7_EmptyResponse ==
    /\ resp_len = 0 =>
          /\ pc = "done"
          /\ result = Returned(JObj(<<>>))
          /\ sock = "closed"
          /\ rx = <<0, 0, 0, 0>>
          /\ data = rx
    /\ pc = "recv_body" => resp_len > 0

\* a header of four zero bytes was read and the call returned {}
C7_Witness ==
    /\ pc = "done"
    /\ resp_len = 0
    /\ rx = <<0, 0, 0, 0>>
    /\ result = Returned(JObj(<<>>))

\* C8: when the whole payload of the declared non-zero length has been read,
\* the call returns and does not raise: the parsed value when the text, the
\* payload decoded as UTF-8 without its malformed bytes, is valid JSON, and
\* otherwise the object whose one key raw holds that text.
C8_RawFallback ==
    (pc = "done" /\ resp_len > 0 /\ Len(rx) = 4 + resp_len) =>
        LET text == Utf8DecodeIgnore(SubSeq(rx, 5, Len(rx)))
            parsed == json_loads(text)
        IN  /\ result.t = "return"
            /\ IF IsRaised(parsed)
               THEN /\ result.v = JObj(<<<<S_raw, JStr(text)>>>>)
                    /\ DictKeys(result.v.v) = {S_raw}
               ELSE result.v = parsed

\* the payload '{' 0xFF is not JSON: the call returned {"raw": "{"}
C8_Witness ==
    /\ pc = "done"
    /\ rx = <<2, 0, 0, 0, 123, 255>>
    /\ result = Returned(JObj(<<<<S_raw, JStr(<<123>>)>>>>))

\* C9: the call never reads more than the 4 header bytes and the declared
\* payload; the length it uses is the one the first 4 bytes read spell; when
\* it ends after fewer than 4 header bytes, or after fewer payload bytes than
\* declared, it has raised a read error, and it returns only when all of
\* them were read, its buffer holding exactly the payload.
C9_ExactReads ==
    /\ Len(rx) <= 4 + PayloadLen
    /\ resp_len # -1 => (Len(rx) >= 4 /\ resp_len = UnpackU32LE(SubSeq(rx, 1, 4)))
    /\ pc = "recv_header" => data = rx
    /\ pc = "recv_body" => data = SubSeq(rx, 5, Len(rx))
    /\ ReadPhaseOver =>
          IF Len(rx) < 4 \/ Len(rx) < 4 + PayloadLen
          THEN IsRaised(result) /\ result.v \in ReadErrors
          ELSE /\ result.t = "return"
               /\ resp_len >= 0
               /\ Len(rx) = 4 + resp_len
               /\ resp_len > 0 => data = SubSeq(rx, 5, 4 + resp_len)

\* the header declared 2 bytes and came in pieces, one payload byte followed,
\* then the peer closed: ConnectionError, nothing decoded
C9_Witness ==
    /\ pc = "done"
    /\ rx = <<2, 0, 0, 0, 123>>
    /\ resp_len = 2
    /\ result = Raised("ConnectionError")

\* C10: a call opens at most one connection; the connection is open only
\* while the call is sending or reading and is closed when the call is over,
\* however it ended; what was written to it is never more than one frame (a
\* length and as many bytes as that length says), and what was read from it
\* never more than one response.
C10_ConnectionClosed ==
    /\ conns <= 1
    /\ sock = "open" <=> pc \in {"send_len", "send_body", "recv_header", "recv_body"}
    /\ pc = "done" => sock = (IF conns = 0 THEN "none" ELSE "closed")
    /\ Len(sent) <= 4 => Len(sent) \in {0, 4}
    /\ Len(sent) > 4 => Len(sent) = 4 + UnpackU32LE(SubSeq(sent, 1, 4))
    /\ Len(rx) <= 4 + PayloadLen

\* the read timed out in the middle of the header: the call raised and its
\* connection is closed
C10_Witness ==
    /\ pc = "done"
    /\ conns = 1
    /\ Len(rx) = 2
    /\ result = Raised("TimeoutError")
    /\ sock = "closed"

\* C11: what the call writes is a 4-byte little-endian length and then as
\* many bytes as it says; the bytes are the compact JSON text of the request
\* without its characters outside ASCII, so every one is below 128, and the
\* length counts the bytes written, not the characters of the text.
C11_Frame ==
    /\ Len(sent) \in {0, 4} \/ Len(sent) = 4 + UnpackU32LE(SubSeq(sent, 1, 4))
    /\ \A i \in 5..Len(sent) : sent[i] < 128
    /\ pc \in {"send_body", "recv_header"} =>
          LET text == json_dumps(request)
              kept == SelectSeq(text, LAMBDA c : c < 128)
              n == Len(kept)
          IN  /\ Len(sent) >= 4
              /\ sent[1] + 256 * sent[2] + 65536 * sent[3] + 16777216 * sent[4] = n
              /\ \A i \in 1..4 : sent[i] \in 0..255
              /\ pc = "recv_header" => SubSeq(sent, 5, Len(sent)) = kept

\* "settings" with the param p, u-umlaut, l, euro sign: the frame is two
\* bytes shorter than the text has characters, and its length says so
C11_Witness ==
    /\ pc = "recv_header"
    /\ args.cmd = CMD_settings
    /\ args.param = NonAsciiParam
    /\ Len(sent) = 4 + Len(json_dumps(request)) - 2
    /\ sent[1] = Len(sent) - 4

(***************************************************************************)
(* Properties of main.                                                     *)
(***************************************************************************)

\* the config file of the run, as main loads it
ConfOf(o) == load_miner_conf(o.config, o.files).value

\* key is given neither on the command line (option opt) nor in the config
MissingBoth(o, opt, key) ==
    /\ o[opt] = PyNone
    /\ IsDict(ConfOf(o))
    /\ dict_get(ConfOf(o), key) = PyNone

\* no call was started, nothing was connected or written
NothingOnTheWire ==
    /\ wire = <<>>
    /\ pc = "idle"
    /\ args = PyNone
    /\ conns = 0
    /\ sock = "none"
    /\ sent = <<>>

S_5 == <<53>>  \* '5'
S_12_5 == <<49,50,46,53>>  \* '12.5'
S_0x10 == <<48,120,49,48>>  \* '0x10'
S_text == <<116,101,120,116>>  \* 'text'
S_item == <<105,116,101,109>>  \* 'item'
ITEM_JSON == <<123,34,105,116,101,109,34,58,32,49,125>>  \* '{"item": 1}'

\* a file system with param.json of the given text and no other file
ParamFiles(text) == [p \in PathNames |-> IF p = "param.json" THEN text ELSE PyNone]

ParamRuns ==
    [param : {PyNone, JStr(S_5), JStr(S_12_5), JStr(S_0x10), JStr(S_text), JStr(S_true)},
     param_json : {PyNone, JStr(ITEM_JSON), JStr(CONF_bad)},
     param_file : {PyNone, Path("param.json"), Path("missing.json")},
     files : {ParamFiles(JStr(POOLS_JSON)), ParamFiles(JStr(CONF_bad))}]

InitParam ==
    /\ opts \in ParamRuns
    /\ cli_pc = "resolve"
    /\ conn = PyNone
    /\ param_obj = PyNone
    /\ provided_salt = PyNone
    /\ preview = PyNone
    /\ status = -1
    /\ wire = <<>>
    /\ fs_log = <<>>
    /\ args = PyNone
    /\ now = Clock0
    /\ pc = "idle"
    /\ request = PyNone
    /\ result = NoResult
    /\ sock = "none"
    /\ conns = 0
    /\ sent = <<>>
    /\ rx = <<>>
    /\ data = <<>>
    /\ resp_len = -1

\* resolve_param_inputs(param_scalar, param_json, param_file)
ResolveParam ==
    /\ cli_pc = "resolve"
    /\ \E r \in {resolve_param_inputs(opts.param, opts.param_json, opts.param_file,
                                      opts.files)} :
          /\ param_obj' = r.value
          /\ fs_log' = r.log
    /\ cli_pc' = "resolved"
    /\ NoCall
    /\ UNCHANGED <<opts, now, conn, provided_salt, preview, status, wire>>

NextParam == ResolveParam

SpecParam == InitParam /\ [][NextParam]_vars

\* C13: the scalar, when given, alone determines the result; else the inline
\* JSON, when given, alone determines it; in both cases no file is looked
\* for or opened.  With only a file path, the file is looked for once: a
\* missing file gives FileNotFoundError and nothing is opened, an existing
\* one is opened and its JSON is the result.  With no source the result is
\* None.
C13_Priority ==
    cli_pc = "resolved" =>
        /\ opts.param # PyNone =>
              /\ param_obj = parse_scalar(opts.param)
              /\ fs_log = <<>>
              /\ opts.param = JStr(S_5) => param_obj = JInt(5)
              /\ opts.param = JStr(S_text) => param_obj = JStr(S_text)
        /\ opts.param = PyNone /\ opts.param_json # PyNone =>
              /\ fs_log = <<>>
              /\ opts.param_json = JStr(ITEM_JSON) => param_obj = JObj(<<<<S_item, JInt(1)>>>>)
              /\ opts.param_json = JStr(CONF_bad) => param_obj = Raised("ValueError")
        /\ opts.param = PyNone /\ opts.param_json = PyNone /\ opts.param_file # PyNone =>
              IF opts.files[opts.param_file.v] = PyNone
              THEN /\ param_obj = Raised("FileNotFoundError")
                   /\ fs_log = <<FsExists(opts.param_file)>>
              ELSE /\ fs_log = <<FsExists(opts.param_file), FsOpen(opts.param_file)>>
                   /\ opts.files[opts.param_file.v] = JStr(POOLS_JSON) => param_obj = PoolsParam
                   /\ opts.files[opts.param_file.v] = JStr(CONF_bad)
                         => param_obj = Raised("ValueError")
        /\ opts.param = PyNone /\ opts.param_json = PyNone /\ opts.param_file = PyNone =>
              param_obj = PyNone /\ fs_log = <<>>

C13_Witness ==
    /\ cli_pc = "resolved"
    /\ opts.param = JStr(S_5)
    /\ opts.param_json = JStr(ITEM_JSON)
    /\ opts.param_file = Path("missing.json")
    /\ param_obj = JInt(5)
    /\ fs_log = <<>>

\* the place of a step in the order of one call
Rank(p) ==
    CASE p = "idle" -> 0
      [] p = "call" -> 1
      [] p = "connect" -> 2
      [] p = "send_len" -> 3
      [] p = "send_body" -> 4
      [] p = "recv_header" -> 5
      [] p = "recv_body" -> 6
      [] p = "done" -> 7

\* C14: every step of one call moves forward in the order connect, write the
\* length, write the payload, read the header, read the payload, return, one
\* place at a time unless it ends the call; the connection is attempted once
\* (the call is at 'connect' at most once and at most one connection is ever
\* made); bytes are written only before any byte was read, and bytes are
\* read only after the whole frame was written; a call that ended, failed or
\* not, does nothing more; a call returns a value only out of its reads.
C14_Step ==
    /\ Rank(pc') >= Rank(pc)
    /\ pc' # "done" => Rank(pc') <= Rank(pc) + 1
    /\ pc' = "connect" => pc \in {"call", "connect"}
    /\ conns' # conns => pc = "connect" /\ conns = 0 /\ conns' = 1 /\ sent = <<>> /\ rx = <<>>
    /\ sent' # sent =>
          /\ pc \in {"send_len", "send_body"}
          /\ sock = "open"
          /\ rx = <<>> /\ rx' = <<>>
          /\ IsPrefix(sent, sent')
    /\ pc = "send_len" /\ pc' = "send_body" => sent = <<>> /\ Len(sent') = 4
    /\ pc = "send_body" /\ pc' = "recv_header" =>
          sent' = PackU32LE(Len(req_bytes_of(request))) \o req_bytes_of(request)
    /\ rx' # rx =>
          /\ pc \in {"recv_header", "recv_body"}
          /\ sock = "open"
          /\ sent' = sent
          /\ Len(sent) = 4 + UnpackU32LE(SubSeq(sent, 1, 4))
          /\ pc = "recv_header" => Len(rx) < 4
          /\ pc = "recv_body" => Len(rx) >= 4
    /\ pc = "done" => pc' = "done" /\ sent' = sent /\ rx' = rx /\ conns' = conns /\ sock' = sock
    /\ pc' = "done" /\ pc # "done" =>
          /\ sent' = sent /\ rx' = rx /\ conns' = conns
          /\ sock' # "open"
          /\ result'.t = "return" => pc \in {"recv_header", "recv_body"}

C14_Order == [][C14_Step]_vars

\* a call that went through every step: one connection, the frame written,
\* header and payload read, a value returned
C14_Witness ==
    /\ pc = "done"
    /\ result.t = "return"
    /\ conns = 1
    /\ Len(sent) > 4
    /\ Len(rx) > 4
    /\ sock = "closed"

\* the final call of a run that printed a preview for a set. command with a
\* salt, once call_whatsminer has built its request
PreviewedAndBuilt ==
    /\ cli_pc = "call"
    /\ opts.show_request
    /\ startswith(opts.cmd, S_set_dot)
    /\ Truthy(provided_salt)
    /\ request # PyNone

\* C15: the preview printed for a set. command with a salt has the cmd, ts,
\* token and account of the request that call_whatsminer then builds and
\* sends, with --ts and without it.
C15_PreviewIsRequest ==
    PreviewedAndBuilt =>
        \A k \in {S_cmd, S_ts, S_token, S_account} :
            dict_get(preview, k) = dict_get(request, k)

\* a run of the call action for a set. command with no --salt or an empty one
NeedsFetch ==
    /\ opts.action = "call"
    /\ startswith(opts.cmd, S_set_dot)
    /\ ~Truthy(opts.salt)

\* the msg.salt of what a finished call returned, None if it carried none
SaltIn(ended) ==
    IF ended.result.t = "return" /\ IsDict(ended.result.v)
       /\ IsDict(dict_get(ended.result.v, S_msg))
    THEN dict_get(dict_get(ended.result.v, S_msg), S_salt)
    ELSE PyNone

\* C16: in a run that needs to fetch the salt, the get.device.info call has
\* ended and its connection is closed before the set. call starts; a set.
\* request is on the wire only if the reply carried a non-empty msg.salt,
\* which is the salt of the call and of its token; a run that obtained no
\* salt wrote no set. request and ends with status 1.  A run with --salt
\* given makes no get.device.info call.
C16_SaltFetch ==
    /\ NeedsFetch /\ cli_pc \in {"preview", "call"} =>
          /\ Len(wire) = 1
          /\ wire[1].cmd = CMD_get_device_info
          /\ wire[1].sock = "closed"
    /\ NeedsFetch /\ cli_pc = "call" /\ sent # <<>> =>
          /\ Truthy(SaltIn(wire[1]))
          /\ args.salt = SaltIn(wire[1])
          /\ pc = "send_body" =>
                dict_get(request, S_token)
                    = JStr(generate_token(args.cmd, args.account_password,
                                          SaltIn(wire[1]), dict_get(request, S_ts)).token)
    /\ NeedsFetch /\ cli_pc = "exit" /\ Len(wire) >= 1 /\ ~Truthy(SaltIn(wire[1])) =>
          /\ status = 1
          /\ \A i \in 1..Len(wire) :
                startswith(wire[i].cmd, S_set_dot) => wire[i].sent = <<>>
    /\ opts.action = "call" /\ startswith(opts.cmd, S_set_dot) /\ Truthy(opts.salt) =>
          /\ pc # "idle" => args.cmd = opts.cmd
          /\ \A i \in 1..Len(wire) : wire[i].cmd = opts.cmd

\* call_whatsminer raised one of its two validation errors
ValidationError ==
    /\ result.t = "exc"
    /\ result.v = "ValueError"
    /\ "msg" \in DOMAIN result
    /\ result.msg \in {SALT_REQUIRED, PARAM_REQUIRED}

\* cmd is one of the two commands whose param is encrypted
NeedsParam(cmd) == cmd \in {CMD_set_miner_pools, CMD_set_user_change_passwd}

\* C17: a call that raised a validation error has opened no connection and
\* sent no byte; a call past its validation has a salt if its command is a
\* set. command and a param if its command is an encrypted one; a call for
\* an encrypted command without param raises the salt error when the salt
\* is absent too, and the param error otherwise.
C17_ValidationFirst ==
    /\ ValidationError =>
          /\ pc = "done"
          /\ request = PyNone
          /\ conns = 0
          /\ sock = "none"
          /\ sent = <<>>
          /\ rx = <<>>
    /\ pc \notin {"call", "done"} =>
          /\ Mutating(args.cmd) => args.salt # PyNone
          /\ NeedsParam(args.cmd) => args.param # PyNone
    /\ pc # "call" /\ NeedsParam(args.cmd) /\ args.param = PyNone =>
          /\ ValidationError
          /\ result.msg = IF args.salt = PyNone THEN SALT_REQUIRED ELSE PARAM_REQUIRED

\* set.miner.pools with neither salt nor param has raised the salt error
C17_Witness ==
    /\ pc = "done"
    /\ args.cmd = CMD_set_miner_pools
    /\ args.salt = PyNone
    /\ args.param = PyNone
    /\ result = RaisedMsg("ValueError", SALT_REQUIRED)
    /\ conns = 0
    /\ sent = <<>>

=============================================================================
